---- MODULE Spec2Model ----
(***************************************************************************)
(* Models of three programs of the repository. The main one is            *)
(* src/08_mpi_gol/src/main.cpp: Conway's game of life on a square          *)
(* periodic grid, partitioned by rows over MPI ranks, with a non-blocking  *)
(* halo exchange per generation.                                           *)
(*                                                                         *)
(* Every rank runs main(); the MPI library is modelled by the message      *)
(* queues `chan` (one FIFO per source, destination and tag: MPI's          *)
(* non-overtaking rule), the request states `reqs`, the set of ranks that  *)
(* entered MPI_Barrier and the queues of MPI_Reduce contributions.         *)
(*                                                                         *)
(* The two others are src/07_mpi_ping_pong/src/main.cpp, which uses the    *)
(* same MPI state (size, eager, pc, chan, status), and compute_pi of       *)
(* src/03_openmp_pi/src/main.cpp. A specification of one program leaves    *)
(* the variables of the others at their idle values.                       *)
(***************************************************************************)
EXTENDS Integers, Sequences, FiniteSets, TLC

\* ---------------------------------------------------------------- bounds
MaxGrid == 3       \* largest grid_size of the simulation runs
MaxSize == 3       \* largest number of ranks of the simulation runs
MaxGen == 2        \* largest number of generations
MaxLive == 1       \* most live cells one rank draws in the random pattern
MaxEvery == 1      \* largest stats_every and data_every
MaxGridPart == 8   \* largest grid_size the partitioner is applied to
MaxSizePart == 4   \* largest number of ranks the partitioner is applied to

VARIABLES
  argc,        \* the argument count main() is started with (same on all ranks)
  toml,        \* the configuration file: the value given for each field
  sd,          \* SimulationData: what parse_sim_data returns (same on all ranks)
  size,        \* MPI_Comm_size
  eager,       \* TRUE: MPI_Isend completes at once (buffered); FALSE: on match
  rng,         \* per rank: the draws (in loop order) at which bit(rng) gives 1
  ref_grid,    \* the reference automaton: its grid after 0..generations steps
  pc,          \* per rank: position in main()
  p,           \* per rank: the Partition
  grid_buf,    \* per rank: std::vector<u8> grid_buf, flat, row-major
  next_buf,    \* per rank: std::vector<u8> next_buf
  up, down,    \* per rank: the neighbour ranks
  step,        \* per rank: the loop counter
  reqs,        \* per rank: MPI_Request reqs[4]
  chan,        \* messages sent and not yet received, by <<src, dst, tag>>
  barrier_in,  \* ranks that have entered MPI_Barrier
  red,         \* per rank: local sums handed to MPI_Reduce, not yet reduced
  out,         \* the diagnostic lines printed: who printed, step, global_sum
  files,       \* snapshot files written: step, rank and the records in order
  status,      \* per rank: exit status of the process
  usage,       \* ranks that printed the usage message
  parsed,      \* history: ranks that have called parse_sim_data
  hist,        \* history: per rank, its rows 1 and local_rows at each loop entry
  halo_src,    \* history: per rank, where each halo row came from
  ping_pong_count,     \* ping-pong, per rank: int ping_pong_count
  printed,             \* ping-pong: the lines printed, in order
  num_blocks,          \* compute_pi: the argument num_blocks
  num_threads,         \* compute_pi: the argument num_threads (requested)
  actual_num_threads,  \* compute_pi: omp_get_num_threads() of the region
  thread_areas,        \* compute_pi: the vector, each element the blocks summed
  thread_area,         \* compute_pi, per thread: the blocks summed so far
  loop_i,              \* compute_pi, per thread: the loop counter i
  tpc,                 \* compute_pi, per thread: position in the region
  pi_pc,               \* compute_pi: position of the calling thread
  stray                \* compute_pi: stores made outside thread_areas

\* fixed when the program starts
config == <<argc, toml, sd, size, eager, rng, ref_grid>>

\* what the first lines of main() leave behind
startup == <<usage, parsed>>

\* the state of the ping-pong program that is its own
ping_pong == <<ping_pong_count, printed>>

\* the state of compute_pi
openmp_pi == <<num_blocks, num_threads, actual_num_threads, thread_areas,
               thread_area, loop_i, tpc, pi_pc, stray>>

\* what a step of the game of life leaves alone
others == <<ping_pong, openmp_pi>>

vars == <<argc, toml, usage, parsed, sd, size, eager, rng, ref_grid, pc, p, grid_buf, next_buf, up, down, step,
          reqs, chan, barrier_in, red, out, files, status, hist, halo_src,
          ping_pong_count, printed, num_blocks, num_threads,
          actual_num_threads, thread_areas, thread_area, loop_i, tpc, pi_pc,
          stray>>

Ranks == 0 .. (size - 1)

Min(a, b) == IF a < b THEN a ELSE b

\* enum IDType
glider_id == 0
random_id == 1

\* ------------------------------------------------------- configuration
\* A field of the configuration file as toml++ sees it: absent, an integer
\* or a string (a string also stands for any value that is not an integer).
RawNone == [kind |-> "none", num |-> 0, str |-> ""]

RawInt(n) == [kind |-> "integer", num |-> n, str |-> ""]

RawStr(t) == [kind |-> "string", num |-> 0, str |-> t]

\* struct SimulationData with its default member initialisers
DefaultSimulationData ==
  [grid_size |-> 32, generations |-> 32, stats_every |-> 1, data_every |-> 1,
   random_seed |-> 64, id_type |-> random_id]

\* node.value_or(d) with an int d: the integer of the node when the node is
\* an integer, otherwise d (every integer of the model fits an int)
value_or_int(node, d) == IF node.kind = "integer" THEN node.num ELSE d

\* node.value_or(d) with a string d
value_or_str(node, d) == IF node.kind = "string" THEN node.str ELSE d

\* The modulus of usize. It is 2^64 in the program; the model checker's
\* integers are 32 bits wide, so the model wraps at 2^16, which is still
\* far above every size the model uses.
UsizeModulus == 65536

\* static_cast<usize>(int): a negative int wraps around
to_usize(x) == x % UsizeModulus

\* strcmp chain of src lines 79-83: neither name leaves the default
id_type_of(name, d) ==
  IF name = "random" THEN random_id
  ELSE IF name = "glider" THEN glider_id ELSE d

parse_sim_data(file) ==
  [grid_size |-> to_usize(value_or_int(file.grid_size, 32)),
   generations |-> to_usize(value_or_int(file.generations, 32)),
   stats_every |-> to_usize(value_or_int(file.stats_every, 1)),
   data_every |-> to_usize(value_or_int(file.data_every, 1)),
   random_seed |-> to_usize(value_or_int(file.random_seed, 64)),
   id_type |-> id_type_of(value_or_str(file.id_type, "random"),
                          DefaultSimulationData.id_type)]

\* root_println: only rank 0 prints
IsRoot_bug(w) == TRUE

IsRoot(w) == w = 0

\* A default-constructed Partition: main() has not called compute_partition.
NoPartition == [rank |-> 0, size |-> 0, local_rows |-> 0, row_offset |-> 0]

\* ------------------------------------------------------------ partitioner
compute_partition_bug(sd_, rank, size_) ==
  LET base == sd_.grid_size \div size_
      rem == sd_.grid_size % size_
      local == base + (IF rank <= rem THEN 1 ELSE 0)
      offset == base * rank + Min(rank, rem)
  IN [rank |-> rank, size |-> size_, local_rows |-> local, row_offset |-> offset]

compute_partition_bug2(sd_, rank, size_) ==
  LET base == sd_.grid_size \div size_
      rem == sd_.grid_size % size_
      local == base + (IF rank < rem THEN 1 ELSE 0)
      offset == base * rank + rem
  IN [rank |-> rank, size |-> size_, local_rows |-> local, row_offset |-> offset]

compute_partition(sd_, rank, size_) ==
  LET base == sd_.grid_size \div size_
      rem == sd_.grid_size % size_
      local == base + (IF rank < rem THEN 1 ELSE 0)
      offset == base * rank + Min(rank, rem)
  IN [rank |-> rank, size |-> size_, local_rows |-> local, row_offset |-> offset]

\* ------------------------------------------------------------- neighbours
UpOf_bug(rank, size_) == (rank + size_ - 1) % (IF size_ > 2 THEN size_ - 1 ELSE size_)

UpOf(rank, size_) == (rank - 1 + size_) % size_

DownOf(rank, size_) == (rank + 1) % size_

\* ---------------------------------------------------------- grid storage
\* The buffers are flat and row-major, as std::vector<u8> under an mdspan of
\* extents (rows_with_halo, grid_size): cell (r, c) is element r*grid_size+c
\* (sequences count from 1, hence the + 1).
rows_with_halo(part) == part.local_rows + 2

BufLen(part) == rows_with_halo(part) * sd.grid_size

At(buf, r, c) == buf[r * sd.grid_size + c + 1]

\* row_ptr(sd, data_ptr, r) with a count of grid_size elements
Row(buf, r) == SubSeq(buf, r * sd.grid_size + 1, r * sd.grid_size + sd.grid_size)

\* a receive of grid_size elements into row_ptr(sd, data_ptr, r)
WriteRow(buf, r, data) ==
  [k \in 1 .. Len(buf) |->
     IF k > r * sd.grid_size /\ k <= r * sd.grid_size + sd.grid_size
     THEN data[k - r * sd.grid_size] ELSE buf[k]]

\* std::vector<u8> v(len): value-initialised, all zero
ZeroBuf(len) == [k \in 1 .. len |-> 0]

\* case random_id: the d-th call of bit(rng), d = (r-1)*grid_size + c, fills
\* cell (r, c) of the owned rows; draws is the set of d at which it gives 1.
RandomBuf(part, draws) ==
  [k \in 1 .. BufLen(part) |->
     IF k - 1 >= sd.grid_size /\ k - 1 < (part.local_rows + 1) * sd.grid_size
        /\ (k - 1 - sd.grid_size) \in draws
     THEN 1 ELSE 0]

\* case glider_id: the nine assignments grid(r, c) = v, in program order
GliderWrites ==
  << <<1, 0, 0>>, <<1, 1, 1>>, <<1, 2, 0>>,
     <<2, 0, 0>>, <<2, 1, 0>>, <<2, 2, 1>>,
     <<3, 0, 1>>, <<3, 1, 1>>, <<3, 2, 1>> >>

\* mdspan does no bounds check: grid(r, c) = v stores at r*grid_size + c.
\* A store inside the vector lands there (possibly in another row or in a
\* halo row); a store past its end is outside the model's buffer.
RECURSIVE ApplyWrites(_, _, _)
ApplyWrites(buf, ws, i) ==
  IF i > Len(ws) THEN buf
  ELSE LET k == ws[i][1] * sd.grid_size + ws[i][2] + 1
       IN ApplyWrites(IF k <= Len(buf) THEN [buf EXCEPT ![k] = ws[i][3]] ELSE buf,
                      ws, i + 1)

\* some glider store falls past the end of the vector (undefined behaviour)
GliderOutOfBounds(part) ==
  \E i \in 1 .. Len(GliderWrites) :
    GliderWrites[i][1] * sd.grid_size + GliderWrites[i][2] >= BufLen(part)

\* grid_buf after "Initialize the grid" (src lines 133, 145-173)
InitialBuf(part, draws) ==
  IF sd.id_type = random_id THEN RandomBuf(part, draws)
  ELSE ApplyWrites(ZeroBuf(BufLen(part)), GliderWrites, 1)

\* ---------------------------------------------------------------- stencil
\* the survival/birth rule of src lines 238-247
Rule_bug(cur, nsum) ==
  IF cur = 1 THEN (IF nsum = 2 THEN 1 ELSE 0)
  ELSE (IF nsum = 3 THEN 1 ELSE 0)

Rule(cur, nsum) ==
  IF cur = 1 THEN (IF nsum = 2 \/ nsum = 3 THEN 1 ELSE 0)
  ELSE (IF nsum = 3 THEN 1 ELSE 0)

Left_bug(c) == IF c = 0 THEN 0 ELSE c - 1

Left(c) == IF c = 0 THEN sd.grid_size - 1 ELSE c - 1

Right_bug(c) == IF c + 1 = sd.grid_size THEN c ELSE c + 1

Right(c) == IF c + 1 = sd.grid_size THEN 0 ELSE c + 1

NSum(buf, r, c) ==
  At(buf, r - 1, Left(c)) + At(buf, r - 1, c) + At(buf, r - 1, Right(c))
  + At(buf, r, Left(c)) + At(buf, r, Right(c))
  + At(buf, r + 1, Left(c)) + At(buf, r + 1, c) + At(buf, r + 1, Right(c))

ComputeNext_bug(part, cur, nxt) ==
  [k \in 1 .. Len(nxt) |->
     LET r == (k - 1) \div sd.grid_size
         c == (k - 1) % sd.grid_size
     IN IF r >= 1 /\ r <= part.local_rows
        THEN Rule(At(cur, r, c), NSum(cur, r, c)) ELSE 0]

\* the compute loops (src lines 218-251): next_grid(r, c) = nxt on owned rows
ComputeNext(part, cur, nxt) ==
  [k \in 1 .. Len(nxt) |->
     LET r == (k - 1) \div sd.grid_size
         c == (k - 1) % sd.grid_size
     IN IF r >= 1 /\ r <= part.local_rows
        THEN Rule(At(cur, r, c), NSum(cur, r, c)) ELSE nxt[k]]

\* local_sum of the diagnostics (src lines 255-260)
RECURSIVE SumCells(_, _, _)
SumCells(buf, lo, hi) == IF lo > hi THEN 0 ELSE buf[lo] + SumCells(buf, lo + 1, hi)

LocalSum_bug(part, buf) == SumCells(buf, 1, Len(buf))

LocalSum(part, buf) ==
  SumCells(buf, sd.grid_size + 1, (part.local_rows + 1) * sd.grid_size)

SnapshotRecords_bug(part, buf) ==
  [k \in 1 .. (part.local_rows * sd.grid_size) |->
     LET r == (k - 1) \div sd.grid_size + 1
         c == (k - 1) % sd.grid_size
     IN <<r - 1, c, At(buf, r, c)>>]

\* the records of one snapshot file, in the order they are printed (src
\* lines 277-282): <<global_r, c, grid(r, c)>> for r = 1..local_rows and
\* c = 0..grid_size-1
SnapshotRecords(part, buf) ==
  [k \in 1 .. (part.local_rows * sd.grid_size) |->
     LET r == (k - 1) \div sd.grid_size + 1
         c == (k - 1) % sd.grid_size
     IN <<part.row_offset + (r - 1), c, At(buf, r, c)>>]

\* ---------------------------------------------------- reference automaton
\* The reference automaton: the rule of the specification applied to the
\* whole grid_size x grid_size grid, periodic in rows and in columns.
Cells == (0 .. (sd.grid_size - 1)) \X (0 .. (sd.grid_size - 1))

Wrap(x) == (x + sd.grid_size) % sd.grid_size

RefRule(cur, nsum) ==
  IF (cur = 1 /\ nsum \in {2, 3}) \/ (cur = 0 /\ nsum = 3) THEN 1 ELSE 0

RefSum(G, r, c) ==
  G[<<Wrap(r - 1), Wrap(c - 1)>>] + G[<<Wrap(r - 1), c>>] + G[<<Wrap(r - 1), Wrap(c + 1)>>]
  + G[<<r, Wrap(c - 1)>>] + G[<<r, Wrap(c + 1)>>]
  + G[<<Wrap(r + 1), Wrap(c - 1)>>] + G[<<Wrap(r + 1), c>>] + G[<<Wrap(r + 1), Wrap(c + 1)>>]

RefStep(G) == [rc \in Cells |-> RefRule(G[rc], RefSum(G, rc[1], rc[2]))]

\* the rank that owns global row r, and the initial global grid: the owned
\* rows of every rank after its initialisation, put at their row offsets
Owner(r) ==
  CHOOSE w \in Ranks :
    LET part == compute_partition(sd, w, size)
    IN part.row_offset <= r /\ r < part.row_offset + part.local_rows

Global0 ==
  [rc \in Cells |->
     LET part == compute_partition(sd, Owner(rc[1]), size)
     IN At(InitialBuf(part, rng[Owner(rc[1])]), rc[1] - part.row_offset + 1, rc[2])]

RECURSIVE RefTable(_)
RefTable(g) ==
  IF g = 0 THEN <<Global0>>
  ELSE LET t == RefTable(g - 1) IN Append(t, RefStep(t[g]))

\* the reference grid after g steps (ref_grid is a sequence, counted from 1)
Ref(g) == ref_grid[g + 1]

\* ------------------------------------------------------------------- init
EmptyReqs == [i \in 0 .. 3 |-> "null"]

NoSrc == [rank |-> -1, gen |-> -1, row |-> -1]

\* the draws of one rank: any set of at most MaxLive of its local_rows *
\* grid_size calls of bit(rng) gives 1 (the generator is seeded with
\* random_seed + rank, so the draws are fixed when the program starts)
DrawSets(sd_, rank, size_) ==
  LET part == compute_partition(sd_, rank, size_)
  IN IF sd_.id_type = random_id
     THEN {S \in SUBSET (0 .. (part.local_rows * sd_.grid_size - 1)) :
             Cardinality(S) <= MaxLive}
     ELSE {{}}

RECURSIVE AllDraws(_, _, _)
AllDraws(sd_, size_, k) ==
  IF k = 0 THEN {<<>>}
  ELSE {Append(f, S) : f \in AllDraws(sd_, size_, k - 1),
                       S \in DrawSets(sd_, k - 1, size_)}

\* the ping-pong program is not running
PingPongIdle ==
  /\ ping_pong_count = [r \in Ranks |-> 0]
  /\ printed = <<>>

\* compute_pi is not running
PiIdle ==
  /\ num_blocks = 0
  /\ num_threads = 0
  /\ actual_num_threads = 0
  /\ thread_areas = <<>>
  /\ thread_area = <<>>
  /\ loop_i = <<>>
  /\ tpc = <<>>
  /\ pi_pc = "idle"
  /\ stray = {}

OthersIdle == PingPongIdle /\ PiIdle

\* what the specifications of the game of life start from, given the
\* configuration
InitRanks ==
  /\ pc = [r \in Ranks |-> "start"]
  /\ p = [r \in Ranks |-> NoPartition]
  /\ grid_buf = [r \in Ranks |-> <<>>]
  /\ next_buf = [r \in Ranks |-> <<>>]
  /\ up = [r \in Ranks |-> -1]
  /\ down = [r \in Ranks |-> -1]
  /\ step = [r \in Ranks |-> 0]
  /\ reqs = [r \in Ranks |-> EmptyReqs]
  /\ chan = [k \in Ranks \X Ranks \X {0, 1} |-> <<>>]
  /\ barrier_in = {}
  /\ red = [r \in Ranks |-> <<>>]
  /\ out = <<>>
  /\ files = {}
  /\ status = [r \in Ranks |-> "running"]
  /\ usage = {}
  /\ parsed = {}
  /\ hist = [r \in Ranks |-> <<>>]
  /\ halo_src = [r \in Ranks |-> <<NoSrc, NoSrc>>]

\* mpirun -n size ./gol config.toml, with any configuration within the bounds
Init ==
  /\ argc = 2
  /\ toml \in [grid_size : {RawInt(n) : n \in 0 .. MaxGrid},
               generations : {RawInt(n) : n \in 0 .. MaxGen},
               stats_every : {RawInt(n) : n \in 1 .. MaxEvery},
               data_every : {RawInt(n) : n \in 1 .. MaxEvery},
               random_seed : {RawInt(64)},
               id_type : {RawStr("glider"), RawStr("random")}]
  /\ sd = parse_sim_data(toml)
  /\ size \in 1 .. MaxSize
  /\ eager \in BOOLEAN
  /\ \E f \in AllDraws(sd, size, size) : rng = [r \in Ranks |-> f[r + 1]]
  /\ ref_grid = RefTable(sd.generations)
  /\ InitRanks
  /\ OthersIdle

\* --------------------------------------------------------------- main()
\* the head of "for (usize step = 0; step < sd.generations; step++)"
LoopHead(s) == IF s < sd.generations THEN "irecv_top" ELSE "finalize"

\* src lines 97-123: with a wrong argument count rank 0 prints the usage and
\* every rank returns EXIT_FAILURE; otherwise parse, partition, and the exit
\* of a rank without rows, which prints and enters MPI_Barrier
Start(w) ==
  /\ w \in Ranks
  /\ pc[w] = "start"
  /\ IF argc # 2
     THEN /\ usage' = IF IsRoot(w) THEN usage \cup {w} ELSE usage
          /\ pc' = [pc EXCEPT ![w] = "done"]
          /\ status' = [status EXCEPT ![w] = "EXIT_FAILURE"]
          /\ UNCHANGED <<parsed, p, barrier_in>>
     ELSE /\ parsed' = parsed \cup {w}
          /\ LET part == compute_partition(sd, w, size)
             IN /\ p' = [p EXCEPT ![w] = part]
                /\ IF part.local_rows = 0
                   THEN /\ pc' = [pc EXCEPT ![w] = "barrier"]
                        /\ barrier_in' = barrier_in \cup {w}
                   ELSE /\ pc' = [pc EXCEPT ![w] = "init"]
                        /\ UNCHANGED barrier_in
          /\ UNCHANGED <<usage, status>>
  /\ UNCHANGED <<config, others, grid_buf, next_buf, up, down, step, reqs,
                 chan, red, out, files, hist, halo_src>>

\* src lines 120-122: MPI_Barrier returns once every rank of MPI_COMM_WORLD
\* has entered it; then MPI_Finalize and return EXIT_SUCCESS
BarrierLeave(w) ==
  /\ w \in Ranks
  /\ pc[w] = "barrier"
  /\ barrier_in = Ranks
  /\ pc' = [pc EXCEPT ![w] = "done"]
  /\ status' = [status EXCEPT ![w] = "EXIT_SUCCESS"]
  /\ UNCHANGED <<config, startup, others, p, grid_buf, next_buf, up, down, step,
                 reqs, chan, barrier_in, red, out, files, hist, halo_src>>

\* src lines 132-177: allocate both buffers, initialise the grid, compute the
\* neighbours, enter the loop
InitGrid(w) ==
  /\ w \in Ranks
  /\ pc[w] = "init"
  /\ grid_buf' = [grid_buf EXCEPT ![w] = InitialBuf(p[w], rng[w])]
  /\ next_buf' = [next_buf EXCEPT ![w] = ZeroBuf(BufLen(p[w]))]
  /\ up' = [up EXCEPT ![w] = UpOf(w, size)]
  /\ down' = [down EXCEPT ![w] = DownOf(w, size)]
  /\ step' = [step EXCEPT ![w] = 0]
  /\ pc' = [pc EXCEPT ![w] = LoopHead(0)]
  /\ UNCHANGED <<config, startup, others, p, reqs, chan, barrier_in, red, out,
                 files, status, hist, halo_src>>

\* src lines 159-172 when a glider store falls past the end of grid_buf: the
\* store is undefined behaviour; the process either goes on as InitGrid says
\* (the bytes past the end were unused) or is killed for the damaged heap.
InitGridAbort(w) ==
  /\ w \in Ranks
  /\ pc[w] = "init"
  /\ sd.id_type = glider_id
  /\ GliderOutOfBounds(p[w])
  /\ pc' = [pc EXCEPT ![w] = "aborted"]
  /\ status' = [status EXCEPT ![w] = "SIGABRT"]
  /\ UNCHANGED <<config, startup, others, p, grid_buf, next_buf, up, down, step,
                 reqs, chan, barrier_in, red, out, files, hist, halo_src>>

\* src lines 188-189: MPI_Irecv into row 0 from up, tag 0, request reqs[0]
IrecvTop(w) ==
  /\ w \in Ranks
  /\ pc[w] = "irecv_top"
  /\ reqs' = [reqs EXCEPT ![w][0] = "active"]
  /\ hist' = [hist EXCEPT ![w] = Append(@, [top |-> Row(grid_buf[w], 1),
                                            bottom |-> Row(grid_buf[w], p[w].local_rows)])]
  /\ pc' = [pc EXCEPT ![w] = "irecv_bot"]
  /\ UNCHANGED <<config, startup, others, p, grid_buf, next_buf, up, down, step,
                 chan, barrier_in, red, out, files, status, halo_src>>

\* src lines 190-191: MPI_Irecv into row local_rows+1 from down, tag 1, reqs[1]
IrecvBot(w) ==
  /\ w \in Ranks
  /\ pc[w] = "irecv_bot"
  /\ reqs' = [reqs EXCEPT ![w][1] = "active"]
  /\ pc' = [pc EXCEPT ![w] = "isend_down"]
  /\ UNCHANGED <<config, startup, others, p, grid_buf, next_buf, up, down, step,
                 chan, barrier_in, red, out, files, status, hist, halo_src>>

\* a message: the row and the send request it belongs to, and (history) the
\* sender's generation and the index of the row sent
Message(w, i, r) == [data |-> Row(grid_buf[w], r), req |-> i, gen |-> step[w], row |-> r]

\* the destination and tag of the two sends: reqs[2] is row local_rows to
\* down with tag 0, reqs[3] is row 1 to up with tag 1
SendDest(w, i) == IF i = 2 THEN down[w] ELSE up[w]

SendTag_bug(i) == IF i = 2 THEN 1 ELSE 0

SendTag(i) == IF i = 2 THEN 0 ELSE 1

SendRow(w, i) == IF i = 2 THEN p[w].local_rows ELSE 1

Isend(w, i) ==
  /\ chan' = [chan EXCEPT ![<<w, SendDest(w, i), SendTag(i)>>] =
                             Append(@, Message(w, i, SendRow(w, i)))]
  /\ reqs' = [reqs EXCEPT ![w][i] = IF eager THEN "done" ELSE "active"]

\* src lines 199-200: MPI_Isend of row local_rows to down, tag 0, reqs[2]
IsendDown(w) ==
  /\ w \in Ranks
  /\ pc[w] = "isend_down"
  /\ Isend(w, 2)
  /\ pc' = [pc EXCEPT ![w] = "isend_up"]
  /\ UNCHANGED <<config, startup, others, p, grid_buf, next_buf, up, down, step,
                 barrier_in, red, out, files, status, hist, halo_src>>

\* src lines 201-202: MPI_Isend of row 1 to up, tag 1, reqs[3]
IsendUp(w) ==
  /\ w \in Ranks
  /\ pc[w] = "isend_up"
  /\ Isend(w, 3)
  /\ pc' = [pc EXCEPT ![w] = "waitall"]
  /\ UNCHANGED <<config, startup, others, p, grid_buf, next_buf, up, down, step,
                 barrier_in, red, out, files, status, hist, halo_src>>

\* the source, tag and destination row of the two receives
RecvSource(w, i) == IF i = 0 THEN up[w] ELSE down[w]

RecvRow(w, i) == IF i = 0 THEN 0 ELSE p[w].local_rows + 1

\* MPI's non-overtaking rule: a receive takes the oldest message of its
\* source and tag
NextMessage_bug(q) == q[Len(q)]

NextMessage(q) == Head(q)

\* The MPI library matches the posted receive reqs[i] of rank w with the
\* oldest message of its source and tag, copies the row into the halo and
\* completes the receive; a send that was waiting for its match completes.
Match(w, i) ==
  LET src == RecvSource(w, i)
      key == <<src, w, i>>
  IN /\ w \in Ranks
     /\ reqs[w][i] = "active"
     /\ chan[key] # <<>>
     /\ LET m == NextMessage(chan[key])
        IN /\ grid_buf' = [grid_buf EXCEPT ![w] = WriteRow(@, RecvRow(w, i), m.data)]
           /\ halo_src' = [halo_src EXCEPT ![w][i + 1] =
                             [rank |-> src, gen |-> m.gen, row |-> m.row]]
           /\ reqs' = [reqs EXCEPT ![w][i] = "done",
                                   ![src][m.req] = IF eager THEN @ ELSE "done"]
     /\ chan' = [chan EXCEPT ![key] = Tail(@)]
     /\ UNCHANGED <<config, startup, others, pc, p, next_buf, up, down, step,
                    barrier_in, red, out, files, status, hist>>

\* src line 211: MPI_Waitall(4, reqs) returns when all four are complete and
\* sets them to MPI_REQUEST_NULL
WaitallDone_bug(w) == reqs[w][2] = "done" /\ reqs[w][3] = "done"

WaitallDone_bug2(w) == \A i \in {0, 2, 3} : reqs[w][i] = "done"

WaitallDone(w) == \A i \in 0 .. 3 : reqs[w][i] = "done"

Waitall(w) ==
  /\ w \in Ranks
  /\ pc[w] = "waitall"
  /\ WaitallDone(w)
  /\ reqs' = [reqs EXCEPT ![w] = EmptyReqs]
  /\ pc' = [pc EXCEPT ![w] = "compute"]
  /\ UNCHANGED <<config, startup, others, p, grid_buf, next_buf, up, down, step,
                 chan, barrier_in, red, out, files, status, hist, halo_src>>

\* src lines 218-251: the stencil on the owned rows, written to next_buf
Compute(w) ==
  /\ w \in Ranks
  /\ pc[w] = "compute"
  /\ next_buf' = [next_buf EXCEPT ![w] = ComputeNext(p[w], grid_buf[w], @)]
  /\ pc' = [pc EXCEPT ![w] = "diag"]
  /\ UNCHANGED <<config, startup, others, p, grid_buf, up, down, step, reqs, chan,
                 barrier_in, red, out, files, status, hist, halo_src>>

\* src lines 254-265: on a sampled step the rank hands its local_sum to
\* MPI_Reduce; a rank other than the root returns once its contribution is
\* sent, with its global_sum still 0, and its root_println prints nothing;
\* the root (rank 0) waits for the contribution of every rank
Diag(w) ==
  /\ w \in Ranks
  /\ pc[w] = "diag"
  /\ IF step[w] % sd.stats_every = 0
     THEN /\ red' = [red EXCEPT ![w] = Append(@, LocalSum(p[w], grid_buf[w]))]
          /\ pc' = [pc EXCEPT ![w] = IF w = 0 THEN "reduce" ELSE "snapshot"]
          /\ out' = IF w # 0 /\ IsRoot(w)
                    THEN Append(out, [rank |-> w, step |-> step[w], sum |-> 0])
                    ELSE out
     ELSE /\ pc' = [pc EXCEPT ![w] = "snapshot"]
          /\ UNCHANGED <<red, out>>
  /\ UNCHANGED <<config, startup, others, p, grid_buf, next_buf, up, down, step,
                 reqs, chan, barrier_in, files, status, hist, halo_src>>

RECURSIVE SumHeads(_, _)
SumHeads(q, k) == IF k = 0 THEN 0 ELSE Head(q[k - 1]) + SumHeads(q, k - 1)

\* src lines 263-265 on rank 0: MPI_Reduce returns with the sum over all
\* ranks of MPI_COMM_WORLD, and the root prints the line
ReduceRoot ==
  /\ pc[0] = "reduce"
  /\ \A r \in Ranks : red[r] # <<>>
  /\ out' = IF IsRoot(0)
            THEN Append(out, [rank |-> 0, step |-> step[0],
                              sum |-> SumHeads(red, size)])
            ELSE out
  /\ red' = [r \in Ranks |-> Tail(red[r])]
  /\ pc' = [pc EXCEPT ![0] = "snapshot"]
  /\ UNCHANGED <<config, startup, others, p, grid_buf, next_buf, up, down, step,
                 reqs, chan, barrier_in, files, status, hist, halo_src>>

\* src lines 272-285: on a sampled step the rank writes its snapshot file
Snapshot(w) ==
  /\ w \in Ranks
  /\ pc[w] = "snapshot"
  /\ IF step[w] % sd.data_every = 0
     THEN files' = files \cup {[step |-> step[w], rank |-> w,
                                records |-> SnapshotRecords(p[w], grid_buf[w])]}
     ELSE UNCHANGED files
  /\ pc' = [pc EXCEPT ![w] = "swap"]
  /\ UNCHANGED <<config, startup, others, p, grid_buf, next_buf, up, down, step,
                 reqs, chan, barrier_in, red, out, status, hist, halo_src>>

Swap_bug(w) ==
  /\ w \in Ranks
  /\ pc[w] = "swap"
  /\ grid_buf' = [grid_buf EXCEPT ![w] = next_buf[w]]
  /\ step' = [step EXCEPT ![w] = @ + 1]
  /\ pc' = [pc EXCEPT ![w] = LoopHead(step[w] + 1)]
  /\ UNCHANGED <<config, startup, others, p, next_buf, up, down, reqs, chan,
                 barrier_in, red, out, files, status, hist, halo_src>>

\* src lines 292-297: std::swap of the two vectors, then step++ and the loop test
Swap(w) ==
  /\ w \in Ranks
  /\ pc[w] = "swap"
  /\ grid_buf' = [grid_buf EXCEPT ![w] = next_buf[w]]
  /\ next_buf' = [next_buf EXCEPT ![w] = grid_buf[w]]
  /\ step' = [step EXCEPT ![w] = @ + 1]
  /\ pc' = [pc EXCEPT ![w] = LoopHead(step[w] + 1)]
  /\ UNCHANGED <<config, startup, others, p, up, down, reqs, chan, barrier_in, red,
                 out, files, status, hist, halo_src>>

\* src lines 299-300: MPI_Finalize and return 0
Finalize(w) ==
  /\ w \in Ranks
  /\ pc[w] = "finalize"
  /\ pc' = [pc EXCEPT ![w] = "done"]
  /\ status' = [status EXCEPT ![w] = "EXIT_SUCCESS"]
  /\ UNCHANGED <<config, startup, others, p, grid_buf, next_buf, up, down, step,
                 reqs, chan, barrier_in, red, out, files, hist, halo_src>>

\* one step of rank w
Rank(w) ==
  \/ Start(w)
  \/ BarrierLeave(w)
  \/ InitGrid(w)
  \/ InitGridAbort(w)
  \/ IrecvTop(w)
  \/ IrecvBot(w)
  \/ IsendDown(w)
  \/ IsendUp(w)
  \/ Waitall(w)
  \/ Compute(w)
  \/ Diag(w)
  \/ Snapshot(w)
  \/ Swap(w)
  \/ Finalize(w)

\* one step of the MPI library
Library ==
  \/ \E w \in 0 .. (MaxSize - 1), i \in {0, 1} : Match(w, i)
  \/ ReduceRoot

Next ==
  \/ \E w \in 0 .. (MaxSize - 1) : Start(w)
  \/ \E w \in 0 .. (MaxSize - 1) : BarrierLeave(w)
  \/ \E w \in 0 .. (MaxSize - 1) : InitGrid(w)
  \/ \E w \in 0 .. (MaxSize - 1) : InitGridAbort(w)
  \/ \E w \in 0 .. (MaxSize - 1) : IrecvTop(w)
  \/ \E w \in 0 .. (MaxSize - 1) : IrecvBot(w)
  \/ \E w \in 0 .. (MaxSize - 1) : IsendDown(w)
  \/ \E w \in 0 .. (MaxSize - 1) : IsendUp(w)
  \/ \E w \in 0 .. (MaxSize - 1), i \in {0, 1} : Match(w, i)
  \/ \E w \in 0 .. (MaxSize - 1) : Waitall(w)
  \/ \E w \in 0 .. (MaxSize - 1) : Compute(w)
  \/ \E w \in 0 .. (MaxSize - 1) : Diag(w)
  \/ ReduceRoot
  \/ \E w \in 0 .. (MaxSize - 1) : Snapshot(w)
  \/ \E w \in 0 .. (MaxSize - 1) : Swap(w)
  \/ \E w \in 0 .. (MaxSize - 1) : Finalize(w)

Spec == Init /\ [][Next]_vars

\* Every process is scheduled and the MPI library makes progress: a step of
\* a rank or of the library that stays possible is eventually taken.
Fairness ==
  /\ \A w \in 0 .. (MaxSize - 1) : WF_vars(Rank(w))
  /\ WF_vars(Library)

FairSpec == Spec /\ Fairness

\* --------------------------------------- the partitioner and ring, alone
\* compute_partition and the neighbour expressions applied rank by rank to
\* any grid size and rank count within the larger bounds of these functions
InitPart ==
  /\ argc = 2
  /\ toml \in [grid_size : {RawInt(n) : n \in 0 .. MaxGridPart},
               generations : {RawInt(0)}, stats_every : {RawNone},
               data_every : {RawNone}, random_seed : {RawNone},
               id_type : {RawNone}]
  /\ sd = parse_sim_data(toml)
  /\ size \in 1 .. MaxSizePart
  /\ eager = TRUE
  /\ rng = [r \in Ranks |-> {}]
  /\ ref_grid = <<>>
  /\ InitRanks
  /\ OthersIdle

CallComputePartition(r) ==
  /\ r \in Ranks
  /\ p[r] = NoPartition
  /\ p' = [p EXCEPT ![r] = compute_partition(sd, r, size)]
  /\ UNCHANGED <<config, startup, others, pc, grid_buf, next_buf, up, down, step,
                 reqs, chan, barrier_in, red, out, files, status, hist, halo_src>>

CallNeighbours(r) ==
  /\ r \in Ranks
  /\ up[r] = -1
  /\ up' = [up EXCEPT ![r] = UpOf(r, size)]
  /\ down' = [down EXCEPT ![r] = DownOf(r, size)]
  /\ UNCHANGED <<config, startup, others, pc, p, grid_buf, next_buf, step, reqs,
                 chan, barrier_in, red, out, files, status, hist, halo_src>>

NextPart ==
  \/ \E r \in 0 .. (MaxSizePart - 1) : CallComputePartition(r)
  \/ \E r \in 0 .. (MaxSizePart - 1) : CallNeighbours(r)

SpecPart == InitPart /\ [][NextPart]_vars

\* ======================================================== properties
\* rows 1..local_rows of buf are rows row_offset.. of the global grid G
OwnedMatches(w, buf, G) ==
  \A r \in 1 .. p[w].local_rows, c \in 0 .. (sd.grid_size - 1) :
    At(buf, r, c) = G[<<p[w].row_offset + r - 1, c>>]

InLoop == {"irecv_top", "irecv_bot", "isend_down", "isend_up", "waitall",
           "compute", "diag", "reduce", "snapshot", "swap"}

\* the exchange of the current generation is complete
PostExchange == {"compute", "diag", "reduce", "snapshot", "swap"}

\* compute of the current generation has written next_buf
PostCompute == {"diag", "reduce", "snapshot", "swap"}

HasRows(w) == compute_partition(sd, w, size).local_rows > 0

\* C1: with 1 <= p <= n, a worker that has finished g generations (its loop
\* counter is g) holds in the owned rows of its current buffer the rows
\* row_offset.. of the reference automaton after g steps from the initial
\* global grid; after compute, its next buffer holds those of g+1 steps.
C1_DistributedEqualsReference ==
  (size <= sd.grid_size) =>
    \A w \in Ranks :
      /\ (pc[w] \in InLoop \cup {"finalize", "done"})
           => OwnedMatches(w, grid_buf[w], Ref(step[w]))
      /\ (pc[w] \in PostCompute)
           => OwnedMatches(w, next_buf[w], Ref(step[w] + 1))

C1_Witness ==
  /\ size = 3 /\ sd.grid_size = 3
  /\ \E w \in Ranks : pc[w] = "done" /\ step[w] = 2
  /\ Ref(1) # Ref(0) /\ Ref(2) # Ref(1)

\* C2: the halo rows a worker computes with in generation g were sent by
\* its neighbours in their generation g, and (with p <= n) they are the rows
\* above and below its stripe in the reference automaton after g steps:
\* never a row of an earlier or later generation.
C2_HaloOfSameGeneration ==
  \A w \in Ranks :
    (pc[w] = "compute") =>
      /\ halo_src[w][1].gen = step[w]
      /\ halo_src[w][2].gen = step[w]
      /\ (size <= sd.grid_size) =>
           \A c \in 0 .. (sd.grid_size - 1) :
             /\ At(grid_buf[w], 0, c)
                  = Ref(step[w])[<<Wrap(p[w].row_offset - 1), c>>]
             /\ At(grid_buf[w], p[w].local_rows + 1, c)
                  = Ref(step[w])[<<Wrap(p[w].row_offset + p[w].local_rows), c>>]

C2_Witness ==
  /\ size = 3 /\ sd.grid_size = 3
  /\ \E w \in Ranks :
       /\ pc[w] = "compute" /\ step[w] = 1
       /\ step[up[w]] = 2
       /\ Ref(1) # Ref(0)

\* C3: when the exchange of a worker is complete, its top halo (row 0) holds
\* the row that its up neighbour sent from its last owned row (local_rows),
\* and its bottom halo (row local_rows+1) the row that its down neighbour
\* sent from its first owned row (row 1), for every worker count, p = 1 and
\* p = 2 included.
C3_HaloFromFacingRow ==
  \A w \in Ranks :
    (pc[w] \in PostExchange) =>
      LET t == halo_src[w][1]
          b == halo_src[w][2]
      IN /\ t.rank = up[w] /\ t.row = p[up[w]].local_rows
         /\ Row(grid_buf[w], 0) = hist[up[w]][t.gen + 1].bottom
         /\ b.rank = down[w] /\ b.row = 1
         /\ Row(grid_buf[w], p[w].local_rows + 1) = hist[down[w]][b.gen + 1].top

\* a worker with two rows or more whose rows 1 and local_rows differ, in a
\* ring of one or two workers (both messages of an edge between the same pair)
C3_Witness ==
  \E w \in Ranks :
    /\ size <= 2
    /\ pc[w] = "compute"
    /\ p[up[w]].local_rows >= 2
    /\ hist[up[w]][step[w] + 1].top # hist[up[w]][step[w] + 1].bottom

\* C4: a worker leaves MPI_Waitall only for the compute phase and only when
\* all four operations it posted in this generation are complete; it is
\* never past the wait with a request of its own still pending.
C4_ComputeAfterAllFour ==
  [][\A w \in Ranks :
       /\ (pc[w] = "waitall" /\ pc'[w] # "waitall")
            => (pc'[w] = "compute" /\ \A i \in 0 .. 3 : reqs[w][i] = "done")
       /\ (pc'[w] \in PostExchange)
            => (\A i \in 0 .. 3 : reqs'[w][i] = "null")]_vars

C4_Witness ==
  \E w \in Ranks :
    /\ pc[w] = "compute" /\ step[w] = 1
    /\ size = 3 /\ ~eager

\* C5 (as claimed): with 1 <= p <= n every worker runs all its generations
\* and terminates.
C5_Claim_AllTerminate ==
  (size <= sd.grid_size) =>
    <>(\A w \in Ranks : pc[w] = "done" /\ step[w] = sd.generations)

\* C6 (as claimed): with more workers than rows, every worker without rows
\* posts no halo send or receive and computes nothing, enters the barrier,
\* and eventually leaves it and terminates with success status (stated for
\* the runs of at least one generation with the random pattern, where no
\* store is out of bounds).
C6_Claim_DegenerateTerminates ==
  (size > sd.grid_size /\ sd.id_type = random_id /\ sd.generations >= 1) =>
    /\ [](\A w \in Ranks :
            ~HasRows(w) =>
              /\ pc[w] \in {"start", "barrier", "done"}
              /\ reqs[w] = EmptyReqs
              /\ \A v \in Ranks, tag \in {0, 1} : chan[<<w, v, tag>>] = <<>>)
    /\ <>(\A w \in Ranks :
            ~HasRows(w) => (pc[w] = "done" /\ status[w] = "EXIT_SUCCESS"))

\* C7 (as claimed): with more workers than rows, no send or receive of a
\* worker that owns rows is addressed to a worker without rows (stated for
\* the runs with the random pattern, where no store is out of bounds).
C7_Claim_RingOfWorkersWithRows ==
  (size > sd.grid_size /\ sd.id_type = random_id) =>
    \A w \in Ranks :
      /\ \A i \in {0, 1} : (reqs[w][i] = "active") => HasRows(RecvSource(w, i))
      /\ \A v \in Ranks, tag \in {0, 1} : (chan[<<w, v, tag>>] # <<>>) => HasRows(v)

\* ---- the partitioner and the ring (checked under SpecPart)
Computed(r) == p[r] # NoPartition

RECURSIVE SumLocalRows(_)
SumLocalRows(k) == IF k = 0 THEN 0 ELSE p[k - 1].local_rows + SumLocalRows(k - 1)

\* C8: the partitions of ranks 0..p-1 tile the rows: rank 0 starts at row 0,
\* each rank starts where the one before ends, the local_rows sum to n and
\* no two ranges overlap.
C8_PartitionsTile ==
  /\ \A r \in Ranks :
       Computed(r) =>
         /\ (r = 0) => p[r].row_offset = 0
         /\ (r + 1 \in Ranks /\ Computed(r + 1))
              => p[r + 1].row_offset = p[r].row_offset + p[r].local_rows
  /\ \A a, b \in Ranks :
       (a # b /\ Computed(a) /\ Computed(b)) =>
         \/ p[a].row_offset + p[a].local_rows <= p[b].row_offset
         \/ p[b].row_offset + p[b].local_rows <= p[a].row_offset
  /\ (\A r \in Ranks : Computed(r)) => SumLocalRows(size) = sd.grid_size

C8_Witness ==
  /\ size >= 3 /\ sd.grid_size % size # 0 /\ sd.grid_size > size
  /\ \A r \in Ranks : Computed(r)

\* C9: local_rows = n/p + (1 if r < n%p) and row_offset = r*(n/p) + min(r,
\* n%p): the ranks with the extra row are exactly the first n%p, two ranks
\* differ by at most one row, and n = 8, p = 3 gives 3, 3, 2.
C9_RemainderToFirstRanks ==
  LET n == sd.grid_size
      q == n \div size
      m == n % size
  IN /\ \A r \in Ranks :
          Computed(r) =>
            /\ p[r].local_rows = (IF r < m THEN q + 1 ELSE q)
            /\ p[r].row_offset = (IF r < m THEN r * (q + 1) ELSE m * (q + 1) + (r - m) * q)
     /\ \A a, b \in Ranks :
          (Computed(a) /\ Computed(b)) =>
            /\ p[a].local_rows - p[b].local_rows \in {-1, 0, 1}
            /\ (a < b) => p[a].local_rows >= p[b].local_rows
     /\ (\A r \in Ranks : Computed(r)) =>
          Cardinality({r \in Ranks : p[r].local_rows = q + 1}) = m
     /\ (n = 8 /\ size = 3 /\ \A r \in Ranks : Computed(r)) =>
          <<p[0].local_rows, p[1].local_rows, p[2].local_rows>> = <<3, 3, 2>>

C9_Witness ==
  /\ sd.grid_size = 8 /\ size = 3
  /\ \A r \in Ranks : Computed(r)

RECURSIVE FollowDown(_, _)
FollowDown(r, k) == IF k = 0 THEN r ELSE down[FollowDown(r, k - 1)]

NeighboursKnown(r) == up[r] # -1

\* C10: up and down are permutations of the ranks, inverse to each other;
\* following down p times from any rank returns to it after visiting every
\* rank once; a single rank is its own up and down neighbour.
C10_RingIsOneCycle ==
  /\ \A r \in Ranks :
       NeighboursKnown(r) =>
         /\ up[r] \in Ranks /\ down[r] \in Ranks
         /\ NeighboursKnown(up[r]) => down[up[r]] = r
         /\ NeighboursKnown(down[r]) => up[down[r]] = r
         /\ (size = 1) => (up[r] = r /\ down[r] = r)
  /\ (\A r \in Ranks : NeighboursKnown(r)) =>
       \A r \in Ranks :
         /\ FollowDown(r, size) = r
         /\ {FollowDown(r, k) : k \in 0 .. (size - 1)} = Ranks
         /\ {up[v] : v \in Ranks} = Ranks
         /\ {down[v] : v \in Ranks} = Ranks

C10_Witness ==
  /\ size >= 3
  /\ \A r \in Ranks : NeighboursKnown(r)


\* ------------------------------------------------------ stencil, alone
\* The compute loops as a function of the buffer they read: rank 0 stands
\* at the compute loops with any contents of its owned rows and of both
\* halo rows, for every grid of at most MaxGridStencil columns and every
\* stripe of at most MaxRowsStencil owned rows.
MaxGridStencil == 3

MaxRowsStencil == 2

\* the configuration file that gives every field as an integer or a name
FileOf(n, gens, stats, data, name) ==
  [grid_size |-> RawInt(n), generations |-> RawInt(gens),
   stats_every |-> RawInt(stats), data_every |-> RawInt(data),
   random_seed |-> RawNone, id_type |-> RawStr(name)]

InitStencil ==
  /\ argc = 2
  /\ \E n \in 1 .. MaxGridStencil : toml = FileOf(n, 1, 1, 1, "random")
  /\ sd = parse_sim_data(toml)
  /\ size \in {k \in 1 .. sd.grid_size :
                 compute_partition(sd, 0, k).local_rows <= MaxRowsStencil}
  /\ eager = TRUE
  /\ rng = [r \in Ranks |-> {}]
  /\ ref_grid = <<>>
  /\ pc = [r \in Ranks |-> IF r = 0 THEN "compute" ELSE "start"]
  /\ p = [r \in Ranks |->
            IF r = 0 THEN compute_partition(sd, 0, size) ELSE NoPartition]
  /\ \E b \in [1 .. BufLen(p[0]) -> {0, 1}] :
       grid_buf = [r \in Ranks |-> IF r = 0 THEN b ELSE <<>>]
  /\ next_buf = [r \in Ranks |-> IF r = 0 THEN ZeroBuf(BufLen(p[0])) ELSE <<>>]
  /\ up = [r \in Ranks |-> IF r = 0 THEN UpOf(0, size) ELSE -1]
  /\ down = [r \in Ranks |-> IF r = 0 THEN DownOf(0, size) ELSE -1]
  /\ step = [r \in Ranks |-> 0]
  /\ reqs = [r \in Ranks |-> EmptyReqs]
  /\ chan = [k \in Ranks \X Ranks \X {0, 1} |-> <<>>]
  /\ barrier_in = {}
  /\ red = [r \in Ranks |-> <<>>]
  /\ out = <<>>
  /\ files = {}
  /\ status = [r \in Ranks |-> "running"]
  /\ usage = {}
  /\ parsed = Ranks
  /\ hist = [r \in Ranks |-> <<>>]
  /\ halo_src = [r \in Ranks |-> <<NoSrc, NoSrc>>]
  /\ OthersIdle

NextStencil == \E w \in 0 .. 0 : Compute(w)

SpecStencil == InitStencil /\ [][NextStencil]_vars

\* the neighbour sum as the rule states it: the 8 cells around (r, c), the
\* columns taken modulo grid_size
SumAround(buf, r, c) ==
  LET n == sd.grid_size
      l == (c + n - 1) % n
      rt == (c + 1) % n
  IN At(buf, r - 1, l) + At(buf, r - 1, c) + At(buf, r - 1, rt)
     + At(buf, r, l) + At(buf, r, rt)
     + At(buf, r + 1, l) + At(buf, r + 1, c) + At(buf, r + 1, rt)

\* C11: once a rank has computed, every owned cell (r, c) of its next buffer
\* is 1 exactly when the cell is live in the current buffer with 2 or 3 live
\* neighbours, or dead with exactly 3, the neighbours being the 8 cells of
\* rows r-1, r, r+1 and of the columns left and right of c with wrap-around
\* (column grid_size-1 is left of column 0, column 0 is right of column
\* grid_size-1); the halo rows supply rows r-1 and r+1 at the stripe's edge.
C11_RuleOnOwnedCells ==
  \A w \in Ranks :
    pc[w] \in PostCompute =>
      \A r \in 1 .. p[w].local_rows, c \in 0 .. (sd.grid_size - 1) :
        LET cur == At(grid_buf[w], r, c)
            nsum == SumAround(grid_buf[w], r, c)
        IN At(next_buf[w], r, c) =
             IF (cur = 1 /\ nsum \in {2, 3}) \/ (cur = 0 /\ nsum = 3)
             THEN 1 ELSE 0

\* a dead cell of column 0 is born from three live cells that all lie in
\* column grid_size-1, and a live cell of column grid_size-1 survives with
\* two live neighbours that both lie in column 0
C11_Witness ==
  /\ pc[0] = "diag"
  /\ sd.grid_size = 3
  /\ \/ /\ At(grid_buf[0], 1, 0) = 0
        /\ At(next_buf[0], 1, 0) = 1
        /\ \A r \in 0 .. 2 :
             At(grid_buf[0], r, 2) = 1 /\ At(grid_buf[0], r, 1) = 0
        /\ At(grid_buf[0], 0, 0) = 0
        /\ At(grid_buf[0], 2, 0) = 0
     \/ /\ At(grid_buf[0], 1, 2) = 1
        /\ At(next_buf[0], 1, 2) = 1
        /\ \A r \in 0 .. 2 : At(grid_buf[0], r, 1) = 0
        /\ At(grid_buf[0], 0, 2) = 0
        /\ At(grid_buf[0], 2, 2) = 0
        /\ At(grid_buf[0], 0, 0) + At(grid_buf[0], 1, 0)
           + At(grid_buf[0], 2, 0) = 2


\* ------------------------------------------------------------ glider runs
\* mpirun -n size ./gol config.toml with id_type = "glider", on grids of 5
\* to MaxGridGlider rows, for the sizes whose glider stores all stay inside
\* the vectors (src lines 159-172 do not check the rank or the bounds).
MaxGridGlider == 6

MaxSizeGlider == 2

MaxGenGlider == 4

InitGlider ==
  /\ argc = 2
  /\ \E n \in 5 .. MaxGridGlider, g \in 0 .. MaxGenGlider :
       toml = FileOf(n, g, 1, 1, "glider")
  /\ sd = parse_sim_data(toml)
  /\ size \in {k \in 1 .. MaxSizeGlider :
                 \A r \in 0 .. (k - 1) :
                   ~GliderOutOfBounds(compute_partition(sd, r, k))}
  /\ eager \in BOOLEAN
  /\ rng = [r \in Ranks |-> {}]
  /\ ref_grid = RefTable(sd.generations)
  /\ InitRanks
  /\ OthersIdle

\* the steps of a run in which every rank owns rows and no store is out of
\* bounds, for at most k ranks
RunStep(k) ==
  \/ \E w \in 0 .. (k - 1) : Start(w)
  \/ \E w \in 0 .. (k - 1) : InitGrid(w)
  \/ \E w \in 0 .. (k - 1) : IrecvTop(w)
  \/ \E w \in 0 .. (k - 1) : IrecvBot(w)
  \/ \E w \in 0 .. (k - 1) : IsendDown(w)
  \/ \E w \in 0 .. (k - 1) : IsendUp(w)
  \/ \E w \in 0 .. (k - 1), i \in {0, 1} : Match(w, i)
  \/ \E w \in 0 .. (k - 1) : Waitall(w)
  \/ \E w \in 0 .. (k - 1) : Compute(w)
  \/ \E w \in 0 .. (k - 1) : Diag(w)
  \/ ReduceRoot
  \/ \E w \in 0 .. (k - 1) : Snapshot(w)
  \/ \E w \in 0 .. (k - 1) : Swap(w)
  \/ \E w \in 0 .. (k - 1) : Finalize(w)

NextGlider == RunStep(MaxSizeGlider)

SpecGlider == InitGlider /\ [][NextGlider]_vars

\* the live cells of the mask of src lines 159-172, as global (row, column)
\* when the mask is written by the rank of row_offset 0
GliderCells ==
  {<<GliderWrites[i][1] - 1, GliderWrites[i][2]>> :
     i \in {j \in 1 .. Len(GliderWrites) : GliderWrites[j][3] = 1}}

\* the global grid whose live cells are exactly S
GridOf(S) == [rc \in Cells |-> IF rc \in S THEN 1 ELSE 0]

Translate(S, dr, dc) == {<<Wrap(rc[1] + dr), Wrap(rc[2] + dc)>> : rc \in S}

\* C12: when the initial global grid is exactly the glider mask on an
\* otherwise dead grid of at least 5 x 5 cells, then a rank that has done 4
\* generations holds, in its owned rows, exactly the 5 cells of the mask
\* moved one row down and one column right, and no other live cell.
C12_GliderMovesDiagonally ==
  (sd.id_type = glider_id /\ sd.grid_size >= 5 /\ sd.generations >= 4
   /\ Ref(0) = GridOf(GliderCells)) =>
    \A w \in Ranks :
      (pc[w] \in InLoop \cup {"finalize", "done"} /\ step[w] = 4) =>
        OwnedMatches(w, grid_buf[w], GridOf(Translate(GliderCells, 1, 1)))

C12_Witness ==
  /\ sd.id_type = glider_id
  /\ sd.grid_size = 5
  /\ Ref(0) = GridOf(GliderCells)
  /\ \A w \in Ranks : pc[w] = "done" /\ step[w] = 4
  /\ At(grid_buf[0], 2, 2) = 1
  /\ At(grid_buf[0], 4, 1) = 1
  /\ LocalSum(p[0], grid_buf[0]) = 5

\* C13: with the glider pattern, after initialisation only the rank that
\* owns global row 0 holds the mask (local rows 1..3, columns 0..2) and
\* every owned cell of every other rank is 0.
C13_Claim_OnlyOwnerOfRowZeroHoldsMask ==
  sd.id_type = glider_id =>
    \A w \in Ranks :
      (pc[w] \in {"irecv_top", "finalize"} /\ step[w] = 0) =>
        IF p[w].row_offset = 0
        THEN \A i \in 1 .. Len(GliderWrites) :
               At(grid_buf[w], GliderWrites[i][1], GliderWrites[i][2])
                 = GliderWrites[i][3]
        ELSE \A r \in 1 .. p[w].local_rows, c \in 0 .. (sd.grid_size - 1) :
               At(grid_buf[w], r, c) = 0


\* C14: from the end of the exchange to the swap, compute included, no cell
\* of the current buffer (owned rows and both halo rows) and no cell of the
\* two halo rows of the next buffer changes: compute stores only into rows
\* 1..local_rows of the next buffer.
C14_ComputeWritesOnlyOwnedRows ==
  [][\A w \in Ranks :
       (pc[w] \in PostExchange /\ pc'[w] \in PostExchange) =>
         /\ grid_buf'[w] = grid_buf[w]
         /\ Row(next_buf'[w], 0) = Row(next_buf[w], 0)
         /\ Row(next_buf'[w], p[w].local_rows + 1)
              = Row(next_buf[w], p[w].local_rows + 1)
         /\ Len(next_buf'[w]) = Len(next_buf[w])]_vars

\* compute has run in the second generation, on a next buffer whose halo
\* rows still hold live cells received in the first generation, and it has
\* changed an owned row of that buffer
C14_Witness ==
  \E w \in Ranks :
    /\ pc[w] = "diag" /\ step[w] = 1
    /\ \E c \in 0 .. (sd.grid_size - 1) : At(next_buf[w], 0, c) = 1
    /\ \E c \in 0 .. (sd.grid_size - 1) :
         At(next_buf[w], p[w].local_rows + 1, c) = 1
    /\ Row(next_buf[w], 1) # hist[w][1].top


\* ------------------------------------------------ runs with sampled output
\* mpirun -n size ./gol config.toml with the random pattern, where
\* stats_every and data_every range over 1..MaxEveryDiag, so that some
\* generations are sampled and some are not.
MaxGridDiag == 2

MaxSizeDiag == 2

MaxGenDiag == 3

MaxEveryDiag == 2

InitDiag ==
  /\ argc = 2
  /\ \E n \in 1 .. MaxGridDiag, g \in 0 .. MaxGenDiag,
        se \in 1 .. MaxEveryDiag, de \in 1 .. MaxEveryDiag :
       toml = FileOf(n, g, se, de, "random")
  /\ sd = parse_sim_data(toml)
  /\ size \in 1 .. MaxSizeDiag
  /\ eager \in BOOLEAN
  /\ \E f \in AllDraws(sd, size, size) : rng = [r \in Ranks |-> f[r + 1]]
  /\ ref_grid = RefTable(sd.generations)
  /\ InitRanks
  /\ OthersIdle

NextDiag == RunStep(MaxSizeDiag)

SpecDiag == InitDiag /\ [][NextDiag]_vars

\* the number of live cells of a global grid
LiveCells(G) == Cardinality({rc \in Cells : G[rc] = 1})

\* the sampled generations below g, for a sampling period every
Sampled(g, every) == {k \in 0 .. (g - 1) : k % every = 0}

\* C15: with p <= n, the diagnostic lines are printed by rank 0 only, one
\* for each generation g with g mod stats_every = 0 that rank 0 has passed,
\* in order, none for another generation; the line of generation g carries
\* g and the number of live cells of the global grid after g applications
\* of the rule (halo cells are not counted).
C15_OneDiagnosticLinePerSampledGeneration ==
  (size <= sd.grid_size) =>
    /\ \A i \in 1 .. Len(out) :
         /\ out[i].rank = 0
         /\ out[i].step = (i - 1) * sd.stats_every
         /\ out[i].sum = LiveCells(Ref(out[i].step))
    /\ Len(out) =
         Cardinality(Sampled(step[0], sd.stats_every))
         + (IF pc[0] \in {"snapshot", "swap"} /\ step[0] % sd.stats_every = 0
            THEN 1 ELSE 0)

\* two ranks, sampling every second generation: generation 1 was skipped,
\* generations 0 and 2 each have their line, with a live cell counted
C15_Witness ==
  /\ size = 2 /\ sd.grid_size = 2
  /\ sd.stats_every = 2 /\ sd.generations = 3
  /\ \A w \in Ranks : pc[w] = "done"
  /\ Len(out) = 2
  /\ out[2].step = 2 /\ out[2].sum = 2

\* the records written for generation g, over all files of that generation
RecordsOf(g) ==
  UNION {{<<f.rank, k>> : k \in 1 .. Len(f.records)} :
           f \in {h \in files : h.step = g}}

RecordAt(g, x) ==
  (CHOOSE f \in files : f.step = g /\ f.rank = x[1]).records[x[2]]

\* C16: with p <= n, a snapshot file exists only for a generation g with
\* g mod data_every = 0, at most one per rank and generation; the file of
\* rank w holds one record per owned cell, with global_row = row_offset +
\* (local_row - 1) and the state of that cell after g applications of the
\* rule, and none for a halo row; and once every rank has passed generation
\* g, the records of generation g hold each global cell exactly once.
C16_SnapshotsTileTheGlobalGrid ==
  (size <= sd.grid_size) =>
    /\ \A f \in files :
         /\ f.step % sd.data_every = 0
         /\ \A h \in files : (h.step = f.step /\ h.rank = f.rank) => h = f
         /\ Len(f.records) = p[f.rank].local_rows * sd.grid_size
         /\ \A k \in 1 .. Len(f.records) :
              LET rec == f.records[k]
              IN /\ rec[1] \in p[f.rank].row_offset ..
                              (p[f.rank].row_offset + p[f.rank].local_rows - 1)
                 /\ rec[2] \in 0 .. (sd.grid_size - 1)
                 /\ rec[3] = Ref(f.step)[<<rec[1], rec[2]>>]
    /\ \A g \in 0 .. (sd.generations - 1) :
         (g % sd.data_every = 0 /\ \A w \in Ranks : step[w] > g) =>
           \A rc \in Cells :
             Cardinality({x \in RecordsOf(g) :
                            RecordAt(g, x)[1] = rc[1]
                            /\ RecordAt(g, x)[2] = rc[2]}) = 1

\* two ranks, snapshots every second generation: both ranks have written
\* generation 2 and none has written generation 1
C16_Witness ==
  /\ size = 2 /\ sd.grid_size = 2
  /\ sd.data_every = 2 /\ sd.generations = 3
  /\ \A w \in Ranks : pc[w] = "done"
  /\ Cardinality({f \in files : f.step = 2}) = 2
  /\ \E f \in files : f.step = 2 /\ f.rank = 1 /\ f.records[1] = <<1, 0, 1>>


\* ------------------------------------------------- wrong argument count
\* mpirun -n size ./gol started with an argument count other than 2 (the
\* program name and one configuration path): no file is read, so the
\* configuration stays default-constructed.
MaxArgc == 4

MaxSizeUsage == 6

NoFile ==
  [grid_size |-> RawNone, generations |-> RawNone, stats_every |-> RawNone,
   data_every |-> RawNone, random_seed |-> RawNone, id_type |-> RawNone]

InitUsage ==
  /\ argc \in (0 .. MaxArgc) \ {2}
  /\ toml = NoFile
  /\ sd = DefaultSimulationData
  /\ size \in 1 .. MaxSizeUsage
  /\ eager \in BOOLEAN
  /\ rng = [r \in Ranks |-> {}]
  /\ ref_grid = <<>>
  /\ InitRanks
  /\ OthersIdle

NextUsage == \E w \in 0 .. (MaxSizeUsage - 1) : Start(w)

SpecUsage == InitUsage /\ [][NextUsage]_vars

\* C17: started with an argument count other than 2, only rank 0 prints the
\* usage message; a rank that has left main has returned EXIT_FAILURE (rank
\* 0 after printing); and no rank ever parses a configuration, computes a
\* partition, posts a receive or a send, prints a diagnostic line or writes
\* a snapshot.
C17_WrongArgumentCount ==
  (argc # 2) =>
    /\ usage \subseteq {0}
    /\ parsed = {}
    /\ files = {}
    /\ out = <<>>
    /\ barrier_in = {}
    /\ \A k \in DOMAIN chan : chan[k] = <<>>
    /\ \A w \in Ranks :
         /\ pc[w] \in {"start", "done"}
         /\ p[w] = NoPartition
         /\ \A i \in 0 .. 3 : reqs[w][i] = "null"
         /\ (pc[w] = "start") => (status[w] = "running" /\ w \notin usage)
         /\ (pc[w] = "done") => (status[w] = "EXIT_FAILURE" /\ (w = 0 => 0 \in usage))

C17_Witness ==
  /\ argc = 3
  /\ size = 3
  /\ \A w \in Ranks : pc[w] = "done" /\ status[w] = "EXIT_FAILURE"
  /\ usage = {0}


\* ----------------------------------------------------- parse_sim_data
\* parse_sim_data applied to a configuration file in which every field is
\* absent, a string, or an integer from -1 to MaxRaw. sd is the local
\* "data" of the function: default-constructed, then assigned field by field.
MaxRaw == 2

RawNumbers == {RawNone, RawStr("text")} \cup {RawInt(n) : n \in -1 .. MaxRaw}

RawNames ==
  {RawNone, RawInt(1), RawStr("random"), RawStr("glider"), RawStr("other")}

InitParse ==
  /\ argc = 2
  /\ toml \in [grid_size : RawNumbers, generations : RawNumbers,
               stats_every : RawNumbers, data_every : RawNumbers,
               random_seed : RawNumbers, id_type : RawNames]
  /\ sd = DefaultSimulationData
  /\ size = 1
  /\ eager = TRUE
  /\ rng = [r \in Ranks |-> {}]
  /\ ref_grid = <<>>
  /\ InitRanks
  /\ OthersIdle

\* src line 102 on rank 0: const auto sd = parse_sim_data(argv[1])
ParseSimData ==
  /\ pc[0] = "start"
  /\ 0 \notin parsed
  /\ sd' = parse_sim_data(toml)
  /\ parsed' = parsed \cup {0}
  /\ UNCHANGED <<others, argc, toml, size, eager, rng, ref_grid, usage, pc, p,
                 grid_buf, next_buf, up, down, step, reqs, chan, barrier_in,
                 red, out, files, status, hist, halo_src>>

NextParse == ParseSimData

SpecParse == InitParse /\ [][NextParse]_vars

\* the fields documented as positive integers
PositiveFields == {"grid_size", "generations", "stats_every", "data_every"}

\* C18 (as claimed): after parsing, a field documented as a positive integer
\* holds the value of the file when that is a positive integer and its
\* documented default otherwise (absent, not an integer, zero or negative);
\* id_type is glider for "glider" and random for anything else.
C18_Claim_InvalidValuesGiveDefaults ==
  (0 \in parsed) =>
    /\ \A f \in PositiveFields :
         sd[f] = IF toml[f].kind = "integer" /\ toml[f].num > 0
                 THEN toml[f].num ELSE DefaultSimulationData[f]
    /\ sd.id_type = IF toml.id_type = RawStr("glider")
                    THEN glider_id ELSE random_id


\* the message a step has appended to some queue, if it has appended one
Posted(k) == chan'[k][Len(chan'[k])]

\* C19: the swap copies and changes no cell, it only exchanges the roles:
\* the current buffer after the swap is the next buffer before it (what
\* compute wrote), the next buffer after it is the former current buffer,
\* and the generation counter advances by one. Hence a row sent in the
\* exchange of a later generation is the row compute wrote in the generation
\* before: it is what the rule gives on the former current buffer, which
\* the rank still holds as its next buffer.
C19_SwapFlipsRoles ==
  [][\A w \in Ranks :
       /\ (pc[w] = "swap" /\ pc'[w] # "swap") =>
            /\ grid_buf'[w] = next_buf[w]
            /\ next_buf'[w] = grid_buf[w]
            /\ step'[w] = step[w] + 1
       /\ (pc[w] \in {"isend_down", "isend_up"} /\ pc'[w] # pc[w]
           /\ step[w] >= 1) =>
            \E k \in DOMAIN chan :
              /\ Len(chan'[k]) = Len(chan[k]) + 1
              /\ Posted(k).gen = step[w]
              /\ Posted(k).data =
                   Row(ComputeNext(p[w], next_buf[w], grid_buf[w]),
                       IF pc[w] = "isend_down" THEN p[w].local_rows ELSE 1)]_vars

\* a rank has sent, in its second generation, a row with a live cell, and
\* its two buffers differ
C19_Witness ==
  \E w \in Ranks :
    /\ pc[w] = "waitall" /\ step[w] = 1
    /\ grid_buf[w] # next_buf[w]
    /\ \E k \in DOMAIN chan :
         /\ k[1] = w
         /\ chan[k] # <<>>
         /\ chan[k][Len(chan[k])].gen = 1
         /\ \E c \in 1 .. sd.grid_size : chan[k][Len(chan[k])].data[c] = 1


\* C20: no barrier synchronises the loop, yet the generation counters of
\* two ring-adjacent ranks never differ by more than 1: a rank leaves the
\* exchange of generation g only after both its neighbours have posted
\* their sends of generation g.
C20_AdjacentGenerationsDifferByAtMostOne ==
  \A w \in Ranks :
    LET v == DownOf(w, size)
    IN /\ step[w] - step[v] \in {-1, 0, 1}
       /\ (pc[w] \in PostExchange) =>
            (step[v] >= step[w] /\ step[UpOf(w, size)] >= step[w])

\* three ranks, and one is a generation ahead of its neighbour
C20_Witness ==
  /\ size = 3
  /\ \E w \in Ranks :
       /\ step[w] = 2
       /\ step[DownOf(w, size)] = 1
       /\ pc[DownOf(w, size)] = "waitall"


\* C21 (as claimed): a rank that has run the glider initialisation has
\* stored only into its owned region: every store grid(r, c) = v of src
\* lines 159-172 has 1 <= r <= local_rows and c <= grid_size - 1, so no halo
\* row holds a cell of the mask, no store is past the end of the vector and
\* the process is not killed for one.
C21_Claim_GliderStoresStayInOwnedRegion ==
  sd.id_type = glider_id =>
    \A w \in Ranks :
      (p[w].local_rows >= 1
       /\ pc[w] \in InLoop \cup {"finalize", "done", "aborted"}) =>
        /\ \A i \in 1 .. Len(GliderWrites) :
             /\ GliderWrites[i][1] \in 1 .. p[w].local_rows
             /\ GliderWrites[i][2] \in 0 .. (sd.grid_size - 1)
        /\ ~GliderOutOfBounds(p[w])
        /\ status[w] # "SIGABRT"
        /\ (step[w] = 0 /\ pc[w] = "irecv_top") =>
             \A c \in 0 .. (sd.grid_size - 1) :
               /\ At(grid_buf[w], 0, c) = 0
               /\ At(grid_buf[w], p[w].local_rows + 1, c) = 0


\* ============================================== src/07_mpi_ping_pong
\* mpirun -n size ./ping_pong. The program uses MPI_COMM_WORLD like the
\* game of life: size, pc, status and the queues chan (tag 0 only) are the
\* same variables. MPI_Send is a blocking send: with eager = TRUE it
\* returns once the message is buffered, otherwise once it is received.
MaxSizePingPong == 3

PING_PONG_LIMIT == 5

partner_rank(w) == (w + 1) % 2

InitPingPong ==
  /\ argc = 1
  /\ toml = NoFile
  /\ sd = DefaultSimulationData
  /\ size \in 1 .. MaxSizePingPong
  /\ eager \in BOOLEAN
  /\ rng = [r \in Ranks |-> {}]
  /\ ref_grid = <<>>
  /\ InitRanks
  /\ ping_pong_count = [r \in Ranks |-> 0]
  /\ printed = <<>>
  /\ PiIdle

\* what a step of the ping-pong program leaves alone
NotPingPong ==
  <<argc, toml, sd, size, eager, rng, ref_grid, p, grid_buf, next_buf, up,
    down, step, reqs, barrier_in, red, out, files, usage, parsed, hist,
    halo_src, openmp_pi>>

\* src lines 14-24: a world of fewer than 2 ranks is refused
PPStart(w) ==
  /\ w \in Ranks
  /\ pc[w] = "start"
  /\ IF size < 2
     THEN /\ printed' = IF w = 0
                        THEN Append(printed, [rank |-> w, what |-> "refused",
                                              count |-> 0, from |-> w])
                        ELSE printed
          /\ pc' = [pc EXCEPT ![w] = "done"]
          /\ status' = [status EXCEPT ![w] = "EXIT_FAILURE"]
     ELSE /\ pc' = [pc EXCEPT ![w] = "pp_loop"]
          /\ UNCHANGED <<printed, status>>
  /\ UNCHANGED <<NotPingPong, chan, ping_pong_count>>

\* src lines 26-27 and 40: the loop test and the choice of the branch
PPLoop(w) ==
  /\ w \in Ranks
  /\ pc[w] = "pp_loop"
  /\ pc' = [pc EXCEPT ![w] =
              IF ping_pong_count[w] < PING_PONG_LIMIT
              THEN (IF w = ping_pong_count[w] % 2
                    THEN "send_size" ELSE "recv_size")
              ELSE "pp_finalize"]
  /\ UNCHANGED <<NotPingPong, chan, ping_pong_count, printed, status>>

\* the message of src line 28, "Ping count from rank", or its length
Ping(w, kind) == [kind |-> kind, count |-> ping_pong_count[w], from |-> w]

\* a blocking send returns: at once when buffered, else when received
SendReturns(w) == eager \/ chan[<<w, partner_rank(w), 0>>] = <<>>

\* src line 32: MPI_Send of msg_size is entered
PPSendSize(w) ==
  /\ w \in Ranks
  /\ pc[w] = "send_size"
  /\ chan' = [chan EXCEPT ![<<w, partner_rank(w), 0>>] =
                            Append(@, Ping(w, "size"))]
  /\ pc' = [pc EXCEPT ![w] = "in_send_size"]
  /\ UNCHANGED <<NotPingPong, ping_pong_count, printed, status>>

\* src line 32 returns
PPSendSizeReturn(w) ==
  /\ w \in Ranks
  /\ pc[w] = "in_send_size"
  /\ SendReturns(w)
  /\ pc' = [pc EXCEPT ![w] = "send_chars"]
  /\ UNCHANGED <<NotPingPong, chan, ping_pong_count, printed, status>>

\* src line 35: MPI_Send of the characters is entered
PPSendChars(w) ==
  /\ w \in Ranks
  /\ pc[w] = "send_chars"
  /\ chan' = [chan EXCEPT ![<<w, partner_rank(w), 0>>] =
                            Append(@, Ping(w, "chars"))]
  /\ pc' = [pc EXCEPT ![w] = "in_send_chars"]
  /\ UNCHANGED <<NotPingPong, ping_pong_count, printed, status>>

\* src lines 35-39: the send returns, the line is printed, the counter grows
PPSendCharsReturn(w) ==
  /\ w \in Ranks
  /\ pc[w] = "in_send_chars"
  /\ SendReturns(w)
  /\ printed' = Append(printed, [rank |-> w, what |-> "sent",
                                 count |-> ping_pong_count[w], from |-> w])
  /\ ping_pong_count' = [ping_pong_count EXCEPT ![w] = @ + 1]
  /\ pc' = [pc EXCEPT ![w] = "pp_loop"]
  /\ UNCHANGED <<NotPingPong, chan, status>>

\* src line 43: MPI_Recv of the length from the partner, tag 0; it returns
\* when a message of the partner is there
PPRecvSize(w) ==
  /\ w \in Ranks
  /\ pc[w] = "recv_size"
  /\ chan[<<partner_rank(w), w, 0>>] # <<>>
  /\ chan' = [chan EXCEPT ![<<partner_rank(w), w, 0>>] = Tail(@)]
  /\ pc' = [pc EXCEPT ![w] = "recv_chars"]
  /\ UNCHANGED <<NotPingPong, ping_pong_count, printed, status>>

\* src lines 46-51: MPI_Recv of the characters, the line, the counter
PPRecvChars(w) ==
  /\ w \in Ranks
  /\ pc[w] = "recv_chars"
  /\ chan[<<partner_rank(w), w, 0>>] # <<>>
  /\ LET m == Head(chan[<<partner_rank(w), w, 0>>])
     IN printed' = Append(printed, [rank |-> w, what |-> "received",
                                    count |-> m.count, from |-> m.from])
  /\ chan' = [chan EXCEPT ![<<partner_rank(w), w, 0>>] = Tail(@)]
  /\ ping_pong_count' = [ping_pong_count EXCEPT ![w] = @ + 1]
  /\ pc' = [pc EXCEPT ![w] = "pp_loop"]
  /\ UNCHANGED <<NotPingPong, status>>

\* src lines 55-56: MPI_Finalize and return 0
PPFinalize(w) ==
  /\ w \in Ranks
  /\ pc[w] = "pp_finalize"
  /\ pc' = [pc EXCEPT ![w] = "done"]
  /\ status' = [status EXCEPT ![w] = "EXIT_SUCCESS"]
  /\ UNCHANGED <<NotPingPong, chan, ping_pong_count, printed>>

\* the steps of rank w
PPRank(w) ==
  \/ PPStart(w) \/ PPLoop(w) \/ PPSendSize(w) \/ PPSendSizeReturn(w)
  \/ PPSendChars(w) \/ PPSendCharsReturn(w) \/ PPRecvSize(w)
  \/ PPRecvChars(w) \/ PPFinalize(w)

NextPingPong ==
  \/ \E w \in 0 .. (MaxSizePingPong - 1) : PPStart(w)
  \/ \E w \in 0 .. (MaxSizePingPong - 1) : PPLoop(w)
  \/ \E w \in 0 .. (MaxSizePingPong - 1) : PPSendSize(w)
  \/ \E w \in 0 .. (MaxSizePingPong - 1) : PPSendSizeReturn(w)
  \/ \E w \in 0 .. (MaxSizePingPong - 1) : PPSendChars(w)
  \/ \E w \in 0 .. (MaxSizePingPong - 1) : PPSendCharsReturn(w)
  \/ \E w \in 0 .. (MaxSizePingPong - 1) : PPRecvSize(w)
  \/ \E w \in 0 .. (MaxSizePingPong - 1) : PPRecvChars(w)
  \/ \E w \in 0 .. (MaxSizePingPong - 1) : PPFinalize(w)

SpecPingPong == InitPingPong /\ [][NextPingPong]_vars

\* every rank is scheduled, and the library completes what it can
FairPingPong ==
  SpecPingPong /\ \A w \in 0 .. (MaxSizePingPong - 1) : WF_vars(PPRank(w))

\* C22 (as claimed): with a world of at least 2 ranks every rank terminates
\* with its counter at PING_PONG_LIMIT: no rank stays blocked in a receive
\* or a send for ever.
C22_Claim_EveryRankTerminates ==
  (size >= 2) =>
    <>(\A w \in Ranks : pc[w] = "done" /\ ping_pong_count[w] = PING_PONG_LIMIT)


\* =============================================== src/03_openmp_pi
\* compute_pi(num_blocks, num_threads), for every num_blocks up to MaxBlocks
\* and every requested num_threads from -1 to MaxThreads. The area a thread
\* sums is modelled by the sequence of the blocks it has integrated, so
\* that a block integrated twice or by two threads shows. The arithmetic
\* is that of std::uint64_t, which does not wrap within the bounds.
MaxBlocks == 4

MaxThreads == 3

InitPi ==
  /\ argc = 3
  /\ toml = NoFile
  /\ sd = DefaultSimulationData
  /\ size = 1
  /\ eager = TRUE
  /\ rng = [r \in Ranks |-> {}]
  /\ ref_grid = <<>>
  /\ InitRanks
  /\ PingPongIdle
  /\ num_blocks \in 0 .. MaxBlocks
  /\ num_threads \in -1 .. MaxThreads
  /\ actual_num_threads = 0
  /\ thread_areas = <<>>
  /\ thread_area = <<>>
  /\ loop_i = <<>>
  /\ tpc = <<>>
  /\ pi_pc = "call"
  /\ stray = {}

\* what a step of compute_pi leaves alone
NotPi ==
  <<argc, toml, sd, size, eager, rng, ref_grid, pc, p, grid_buf, next_buf,
    up, down, step, reqs, chan, barrier_in, red, out, files, status, usage,
    parsed, hist, halo_src, ping_pong, num_blocks, num_threads>>

\* the threads of the parallel region
Threads == 0 .. (actual_num_threads - 1)

\* src lines 64-68
blocks_per_thread == num_blocks \div actual_num_threads

remainder == num_blocks % actual_num_threads

my_blocks(thread_id) ==
  blocks_per_thread + (IF thread_id < remainder THEN 1 ELSE 0)

start_block(thread_id) ==
  thread_id * blocks_per_thread + Min(thread_id, remainder)

\* src lines 43-47: omp_set_num_threads and the vector of num_threads
\* doubles, all 0.0. static_cast<std::size_t> of a negative num_threads is
\* larger than max_size(): the constructor throws std::length_error, which
\* nothing catches.
PiAllocate ==
  /\ pi_pc = "call"
  /\ IF num_threads < 0
     THEN /\ pi_pc' = "terminated"
          /\ UNCHANGED thread_areas
     ELSE /\ thread_areas' = [k \in 1 .. num_threads |-> <<>>]
          /\ pi_pc' = "fork"
  /\ UNCHANGED <<NotPi, actual_num_threads, thread_area, loop_i, tpc, stray>>

\* src lines 52-56: the region starts with a team of at least one thread
\* and, for a positive request, of at most num_threads threads; what a
\* request that is not positive gives is implementation defined
PiFork ==
  /\ pi_pc = "fork"
  /\ \E n \in 1 .. MaxThreads :
       /\ (num_threads >= 1) => (n <= num_threads)
       /\ actual_num_threads' = n
       /\ thread_area' = [t \in 0 .. (n - 1) |-> <<>>]
       /\ loop_i' = [t \in 0 .. (n - 1) |-> 0]
       /\ tpc' = [t \in 0 .. (n - 1) |-> "loop"]
  /\ pi_pc' = "region"
  /\ UNCHANGED <<NotPi, thread_areas, stray>>

\* src lines 77-91: one iteration, block start_block + i is added
PiIntegrate(t) ==
  /\ pi_pc = "region"
  /\ t \in Threads
  /\ tpc[t] = "loop"
  /\ loop_i[t] < my_blocks(t)
  /\ thread_area' = [thread_area EXCEPT ![t] = Append(@, start_block(t) + loop_i[t])]
  /\ loop_i' = [loop_i EXCEPT ![t] = @ + 1]
  /\ UNCHANGED <<NotPi, actual_num_threads, thread_areas, tpc, pi_pc, stray>>

\* src line 93 with thread_id inside the vector
PiStore(t) ==
  /\ pi_pc = "region"
  /\ t \in Threads
  /\ tpc[t] = "loop"
  /\ loop_i[t] >= my_blocks(t)
  /\ t < Len(thread_areas)
  /\ thread_areas' = [thread_areas EXCEPT ![t + 1] = thread_area[t]]
  /\ tpc' = [tpc EXCEPT ![t] = "done"]
  /\ UNCHANGED <<NotPi, actual_num_threads, thread_area, loop_i, pi_pc, stray>>

\* src line 93 with thread_id past the end of the vector (operator[] does
\* not check): undefined behaviour; the store lands outside the vector and
\* the thread goes on
PiStoreOutside(t) ==
  /\ pi_pc = "region"
  /\ t \in Threads
  /\ tpc[t] = "loop"
  /\ loop_i[t] >= my_blocks(t)
  /\ t >= Len(thread_areas)
  /\ stray' = stray \cup {[thread |-> t, index |-> t]}
  /\ tpc' = [tpc EXCEPT ![t] = "done"]
  /\ UNCHANGED <<NotPi, actual_num_threads, thread_areas, thread_area,
                 loop_i, pi_pc>>

\* the same store, when it kills the process (an empty vector has no
\* storage at all)
PiStoreFault(t) ==
  /\ pi_pc = "region"
  /\ t \in Threads
  /\ tpc[t] = "loop"
  /\ loop_i[t] >= my_blocks(t)
  /\ t >= Len(thread_areas)
  /\ pi_pc' = "killed"
  /\ UNCHANGED <<NotPi, actual_num_threads, thread_areas, thread_area,
                 loop_i, tpc, stray>>

\* src lines 94-107: the region ends when every thread is done; the caller
\* sums thread_areas and returns
PiJoin ==
  /\ pi_pc = "region"
  /\ \A t \in Threads : tpc[t] = "done"
  /\ pi_pc' = "returned"
  /\ UNCHANGED <<NotPi, actual_num_threads, thread_areas, thread_area,
                 loop_i, tpc, stray>>

NextPi ==
  \/ PiAllocate
  \/ PiFork
  \/ \E t \in 0 .. (MaxThreads - 1) : PiIntegrate(t)
  \/ \E t \in 0 .. (MaxThreads - 1) : PiStore(t)
  \/ \E t \in 0 .. (MaxThreads - 1) : PiStoreOutside(t)
  \/ \E t \in 0 .. (MaxThreads - 1) : PiStoreFault(t)
  \/ PiJoin

SpecPi == InitPi /\ [][NextPi]_vars

\* the blocks of the range [start_block, start_block + my_blocks) of a thread
RangeOf(t) == start_block(t) .. (start_block(t) + my_blocks(t) - 1)

\* C23 (as claimed): in the parallel region, whatever num_blocks and the
\* number of threads running, the block ranges of the threads are disjoint
\* and cover 0..num_blocks-1, a thread integrates the blocks of its own
\* range and each once, and a thread stores only into its own element of
\* thread_areas, which lies inside the vector of num_threads elements.
C23_Claim_BlocksPartitionedStoresInside ==
  (pi_pc \in {"region", "returned", "killed"}) =>
    /\ \A b \in 0 .. (num_blocks - 1) :
         Cardinality({t \in Threads : b \in RangeOf(t)}) = 1
    /\ \A t \in Threads :
         /\ RangeOf(t) \subseteq 0 .. (num_blocks - 1)
         /\ \A k \in 1 .. Len(thread_area[t]) :
              thread_area[t][k] = start_block(t) + k - 1
         /\ Len(thread_area[t]) <= my_blocks(t)
         /\ (tpc[t] = "done") =>
              /\ t < Len(thread_areas)
              /\ thread_areas[t + 1] = thread_area[t]
              /\ Len(thread_area[t]) = my_blocks(t)
    /\ \A k \in 1 .. Len(thread_areas) :
         thread_areas[k] # <<>> => (k - 1 \in Threads /\ tpc[k - 1] = "done")
    /\ stray = {}
    /\ pi_pc # "killed"

====
